---------------------------- MODULE Spec2Model ----------------------------
(***************************************************************************)
(* Model of the voter-ID ingestion pipeline (ingest_voters_to_supabase.py),*)
(* its OCR wrapper (ocr_cloud_vision.py) and the look-up service (main.py).*)
(*                                                                         *)
(* A Python str is a sequence of one-character strings.  The process run   *)
(* by main() is a state machine whose position is pc; the object store and *)
(* the table outlive a run, so a folder can be ingested more than once.    *)
(***************************************************************************)
EXTENDS Integers, Sequences, FiniteSets, TLC

(***************************************************************************)
(* Bounds of the model.                                                    *)
(***************************************************************************)
\* runs of the pipeline over the same folder
MaxRuns == 2
\* pages of a document
MaxPages == 2
\* characters of a generated page text
MaxLen == 7
\* literals a field of a generated --ocr-crop is drawn from
MaxCoords == 3

(***************************************************************************)
(* Characters and the str methods the sources use.                         *)
(***************************************************************************)
UpperSeq ==
    << "A", "B", "C", "D", "E", "F", "G", "H", "I", "J", "K", "L", "M",
       "N", "O", "P", "Q", "R", "S", "T", "U", "V", "W", "X", "Y", "Z" >>

LowerSeq ==
    << "a", "b", "c", "d", "e", "f", "g", "h", "i", "j", "k", "l", "m",
       "n", "o", "p", "q", "r", "s", "t", "u", "v", "w", "x", "y", "z" >>

UpperCase == { UpperSeq[i] : i \in DOMAIN UpperSeq }

LowerCase == { LowerSeq[i] : i \in DOMAIN LowerSeq }

Digits == { "0", "1", "2", "3", "4", "5", "6", "7", "8", "9" }

\* what str.strip() removes at both ends
Whitespace == { " ", "\t", "\n", "\r" }

\* str.upper() on one character
UpperChar(c) ==
    IF c \in LowerCase
    THEN UpperSeq[CHOOSE i \in DOMAIN LowerSeq : LowerSeq[i] = c]
    ELSE c

\* str.upper()
Upper(s) == [i \in DOMAIN s |-> UpperChar(s[i])]

\* str.replace(ch, "")
Remove(s, ch) == SelectSeq(s, LAMBDA c : c # ch)

RECURSIVE LStrip(_)
LStrip(s) ==
    IF s # << >> /\ Head(s) \in Whitespace THEN LStrip(Tail(s)) ELSE s

RECURSIVE RStrip(_)
RStrip(s) ==
    IF s # << >> /\ s[Len(s)] \in Whitespace
    THEN RStrip(SubSeq(s, 1, Len(s) - 1))
    ELSE s

\* str.strip()
Strip(s) == RStrip(LStrip(s))

\* s[:n]
Take(s, n) == SubSeq(s, 1, IF Len(s) < n THEN Len(s) ELSE n)

(***************************************************************************)
(* ingest_voters_to_supabase.py: clean_voter_id                            *)
(***************************************************************************)
\* a cleaning that trims before it removes the separator
clean_voter_id_StripFirst(raw) == Remove(Strip(raw), "/")

clean_voter_id(raw) == Strip(Remove(raw, "/"))

(***************************************************************************)
(* A pattern of --regex is a character class with a quantifier:            *)
(* [cls]+ (the shape of the default) or [cls]*; "invalid" is a pattern     *)
(* re.compile rejects.                                                     *)
(***************************************************************************)
\* the default of --regex, [A-Za-z0-9/]+
DefaultRegex ==
    [cls |-> UpperCase \cup LowerCase \cup Digits \cup { "/" }, quant |-> "+"]

InvalidRegex == [cls |-> { }, quant |-> "invalid"]

\* re.compile(pattern) succeeds
Compiles(pattern) == pattern.quant \in { "+", "*" }

\* the end of the longest run of class characters that starts at i
\* (the index after the run; i itself when line[i] is no class character)
RECURSIVE RunEnd(_, _, _)
RunEnd(line, cls, i) ==
    IF i <= Len(line) /\ line[i] \in cls THEN RunEnd(line, cls, i + 1) ELSE i

\* rx.findall(ln), scanning from position i: the non-overlapping matches,
\* left to right; [cls]* also matches the empty string where no run starts
RECURSIVE FindAllFrom(_, _, _)
FindAllFrom(line, pattern, i) ==
    IF i > Len(line)
    THEN IF pattern.quant = "*" THEN << << >> >> ELSE << >>
    ELSE LET j == RunEnd(line, pattern.cls, i)
         IN  IF j > i
             THEN << SubSeq(line, i, j - 1) >> \o FindAllFrom(line, pattern, j)
             ELSE IF pattern.quant = "*"
                  THEN << << >> >> \o FindAllFrom(line, pattern, i + 1)
                  ELSE FindAllFrom(line, pattern, i + 1)

FindAll(line, pattern) == FindAllFrom(line, pattern, 1)

(***************************************************************************)
(* ingest_voters_to_supabase.py: extract_ids_from_lines                    *)
(***************************************************************************)
\* the first loop: every cleaned, non-empty match of every line, in order
RECURSIVE CleanedMatches(_, _)
CleanedMatches(lines, pattern) ==
    IF lines = << >>
    THEN << >>
    ELSE LET ms == FindAll(Head(lines), pattern)
             cl == [k \in DOMAIN ms |-> clean_voter_id(ms[k])]
         IN  SelectSeq(cl, LAMBDA c : c # << >>)
                 \o CleanedMatches(Tail(lines), pattern)

\* a dedup that keeps the last occurrence of a value instead of the first
RECURSIVE UniqLast(_)
UniqLast(ids) ==
    IF ids = << >>
    THEN << >>
    ELSE LET rest == Tail(ids)
         IN  IF \E k \in DOMAIN rest : rest[k] = Head(ids)
             THEN UniqLast(rest)
             ELSE << Head(ids) >> \o UniqLast(rest)

\* the second loop: drop a value that was seen before
RECURSIVE UniqFrom(_, _)
UniqFrom(ids, seen) ==
    IF ids = << >>
    THEN << >>
    ELSE IF Head(ids) \in seen
         THEN UniqFrom(Tail(ids), seen)
         ELSE << Head(ids) >> \o UniqFrom(Tail(ids), seen \cup { Head(ids) })

extract_ids_from_lines_NoDedup(lines, pattern) == CleanedMatches(lines, pattern)

extract_ids_from_lines_KeepLast(lines, pattern) ==
    UniqLast(CleanedMatches(lines, pattern))

extract_ids_from_lines(lines, pattern) ==
    UniqFrom(CleanedMatches(lines, pattern), { })

(***************************************************************************)
(* ocr_cloud_vision.py: ocr_image_texts.  A response of the service is its *)
(* error message (empty: none), the text of the full annotation and the    *)
(* description of the first text annotation.                               *)
(***************************************************************************)
\* where str.splitlines() breaks a line
LineBreaks == { "\n", "\r" }

\* str.splitlines(), cur being the line in hand
RECURSIVE SplitLinesFrom(_, _)
SplitLinesFrom(text, cur) ==
    IF text = << >>
    THEN IF cur = << >> THEN << >> ELSE << cur >>
    ELSE IF Head(text) = "\r" /\ Len(text) >= 2 /\ text[2] = "\n"
         THEN << cur >> \o SplitLinesFrom(Tail(Tail(text)), << >>)
         ELSE IF Head(text) \in LineBreaks
              THEN << cur >> \o SplitLinesFrom(Tail(text), << >>)
              ELSE SplitLinesFrom(Tail(text), Append(cur, Head(text)))

SplitLines(text) == SplitLinesFrom(text, << >>)

\* the lines of a text: each stripped, the empty ones left out
StrippedLines(text) ==
    LET ls == SplitLines(text)
    IN  SelectSeq([k \in DOMAIN ls |-> Strip(ls[k])], LAMBDA l : l # << >>)

\* lines 38-42: the response makes ocr_image_texts raise
VisionError(response) == response.error # ""

\* lines 44-57: the lines ocr_image_texts returns
ocr_image_texts(response) ==
    IF response.full_text # << >>
    THEN StrippedLines(response.full_text)
    ELSE StrippedLines(response.description)

(***************************************************************************)
(* main.py: normalize_voter_id, VOTER_ID_ALLOWED                           *)
(***************************************************************************)
\* the hard cap of normalize_voter_id, cleaned[:40]
NormCap == 40
\* the lengths VOTER_ID_ALLOWED accepts, {3,40}
AllowedMin == 3
AllowedMax == 40

normalize_voter_id(raw) ==
    LET cleaned == Upper(Remove(raw, "/"))
        alnum   == SelectSeq(cleaned, LAMBDA c : c \in UpperCase \cup Digits)
    IN  Take(alnum, NormCap)

VOTER_ID_ALLOWED(s) ==
    /\ Len(s) >= AllowedMin
    /\ Len(s) <= AllowedMax
    /\ \A i \in DOMAIN s : s[i] \in UpperCase \cup Digits

(***************************************************************************)
(* The input folder.  A file is its stem and its suffix; the name is the   *)
(* two joined.                                                             *)
(***************************************************************************)
DotPdf == << ".", "p", "d", "f" >>

DotPDF == << ".", "P", "D", "F" >>

DotTxt == << ".", "t", "x", "t" >>

\* the files a folder may hold, in the order sorted() gives their paths
\* (code-point order: "a.PDF" < "a.pdf" < "b.pdf" < "n.txt")
FolderOrder ==
    << [stem |-> << "a" >>, suffix |-> DotPDF],
       [stem |-> << "a" >>, suffix |-> DotPdf],
       [stem |-> << "b" >>, suffix |-> DotPdf],
       [stem |-> << "n" >>, suffix |-> DotTxt] >>

FilePool == { FolderOrder[k] : k \in DOMAIN FolderOrder }

\* the folders of the model
Folders ==
    { { },
      { FolderOrder[4] },
      { FolderOrder[2] },
      { FolderOrder[2], FolderOrder[3], FolderOrder[4] },
      { FolderOrder[1], FolderOrder[2] } }

\* Path.name
Name(f) == f.stem \o f.suffix

\* str.lower() on one character
LowerChar(c) ==
    IF c \in UpperCase
    THEN LowerSeq[CHOOSE k \in DOMAIN UpperSeq : UpperSeq[k] = c]
    ELSE c

\* str.lower()
Lower(s) == [k \in DOMAIN s |-> LowerChar(s[k])]

\* sorted([p for p in folder.iterdir() if p.suffix.lower() == ".pdf"])
PdfFilesOf(dir) ==
    SelectSeq(FolderOrder, LAMBDA f : f \in dir /\ Lower(f.suffix) = DotPdf)

(***************************************************************************)
(* Storage paths and URLs.                                                 *)
(***************************************************************************)
DigitSeq == << "0", "1", "2", "3", "4", "5", "6", "7", "8", "9" >>

\* f"{n:04d}" for 0 <= n < 10000
Fmt04(n) ==
    << DigitSeq[((n \div 1000) % 10) + 1], DigitSeq[((n \div 100) % 10) + 1],
       DigitSeq[((n \div 10) % 10) + 1], DigitSeq[(n % 10) + 1] >>

RECURSIVE LStripChar(_, _)
LStripChar(s, ch) ==
    IF s # << >> /\ Head(s) = ch THEN LStripChar(Tail(s), ch) ELSE s

RECURSIVE RStripChar(_, _)
RStripChar(s, ch) ==
    IF s # << >> /\ s[Len(s)] = ch
    THEN RStripChar(SubSeq(s, 1, Len(s) - 1), ch)
    ELSE s

\* str.strip("/")
StripChar(s, ch) == RStripChar(LStripChar(s, ch), ch)

Slash == << "/" >>

\* f"{storage_prefix}/{pdf_path.stem}/{pdf_path.name}"
FullStoragePath(prefix, f) == prefix \o Slash \o f.stem \o Slash \o Name(f)

\* f"{pdf_path.stem}_p{page_num:04d}.pdf"
SingleLocalName(f, page_num) ==
    f.stem \o << "_", "p" >> \o Fmt04(page_num) \o DotPdf

\* f"{storage_prefix}/{pdf_path.stem}/pages/{single_local.name}"
SingleStoragePath(prefix, f, page_num) ==
    prefix \o Slash \o f.stem \o Slash \o << "p", "a", "g", "e", "s" >>
        \o Slash \o SingleLocalName(f, page_num)

\* supa.storage.from_(bucket).get_public_url(storage_path)
PublicUrl(bucket, path) == [bucket |-> bucket, path |-> path]

\* the content type upload_and_get_url derives from the local suffix
ContentType(suffix) ==
    IF Lower(suffix) = DotPdf
    THEN "application/pdf"
    ELSE "application/octet-stream"

(***************************************************************************)
(* The object store.  An object is the bytes of its latest upload with the *)
(* run that wrote them; upload with upsert "true" overwrites, any other    *)
(* value makes an upload to an existing path fail.                         *)
(***************************************************************************)
\* the "upsert" header upload_and_get_url sends
UpsertNever == "false"

Upsert == "true"

\* the store refuses the upload: the path exists and upsert is not asked for
Duplicate(objects, path) == path \in DOMAIN objects /\ Upsert # "true"

PutObject(objects, path, obj) ==
    [p \in DOMAIN objects \cup { path } |->
        IF p = path THEN obj ELSE objects[p]]

(***************************************************************************)
(* Python float: a binary64 number.  A natural number of any size is the   *)
(* sequence of its digits in base LimbBase, the lowest first, without a    *)
(* leading zero digit; a float that is not negative is m * 2^e with m such *)
(* a number of at most MantissaBits bits, odd or zero.  The exponent range *)
(* of binary64 is not reached by the values of the model.                  *)
(***************************************************************************)
\* the bits of the significand of a binary64 number
MantissaBits == 53

\* the bits of one digit of a natural number
LimbBits == 14

RECURSIVE Pow2(_)
Pow2(n) == IF n = 0 THEN 1 ELSE 2 * Pow2(n - 1)

LimbBase == Pow2(LimbBits)

\* the number without zero digits at its high end
RECURSIVE BNorm(_)
BNorm(a) ==
    IF a # << >> /\ a[Len(a)] = 0 THEN BNorm(SubSeq(a, 1, Len(a) - 1)) ELSE a

\* the digits of an int that is not negative
RECURSIVE BFromInt(_)
BFromInt(n) ==
    IF n = 0 THEN << >> ELSE << n % LimbBase >> \o BFromInt(n \div LimbBase)

Digit(a, k) == IF k <= Len(a) THEN a[k] ELSE 0

\* a + b + carry, from digit k on
RECURSIVE BAddFrom(_, _, _, _)
BAddFrom(a, b, k, carry) ==
    IF k > Len(a) /\ k > Len(b)
    THEN IF carry = 0 THEN << >> ELSE << carry >>
    ELSE LET t == Digit(a, k) + Digit(b, k) + carry
         IN  << t % LimbBase >> \o BAddFrom(a, b, k + 1, t \div LimbBase)

BAdd(a, b) == BAddFrom(a, b, 1, 0)

\* a - b - borrow, from digit k on, for a >= b
RECURSIVE BSubFrom(_, _, _, _)
BSubFrom(a, b, k, borrow) ==
    IF k > Len(a)
    THEN << >>
    ELSE LET t == Digit(a, k) - Digit(b, k) - borrow
         IN  << t % LimbBase >> \o BSubFrom(a, b, k + 1, IF t < 0 THEN 1 ELSE 0)

BSub(a, b) == BNorm(BSubFrom(a, b, 1, 0))

\* a < b, a = b, a > b as -1, 0, 1: the highest digit that differs decides
RECURSIVE BCmpFrom(_, _, _)
BCmpFrom(a, b, k) ==
    IF k = 0
    THEN 0
    ELSE IF a[k] < b[k] THEN -1
         ELSE IF a[k] > b[k] THEN 1 ELSE BCmpFrom(a, b, k - 1)

BCmp(a, b) ==
    IF Len(a) < Len(b) THEN -1
    ELSE IF Len(a) > Len(b) THEN 1 ELSE BCmpFrom(a, b, Len(a))

\* a * d + carry for one digit d, from digit k on
RECURSIVE BMulDigitFrom(_, _, _, _)
BMulDigitFrom(a, d, k, carry) ==
    IF k > Len(a)
    THEN IF carry = 0 THEN << >> ELSE << carry >>
    ELSE LET t == a[k] * d + carry
         IN  << t % LimbBase >> \o BMulDigitFrom(a, d, k + 1, t \div LimbBase)

BMulDigit(a, d) == BNorm(BMulDigitFrom(a, d, 1, 0))

\* a * b: the products of a with the digits of b, each moved up to its place
RECURSIVE BMulFrom(_, _, _)
BMulFrom(a, b, k) ==
    IF k > Len(b)
    THEN << >>
    ELSE BAdd([j \in 1 .. k - 1 |-> 0] \o BMulDigit(a, b[k]), BMulFrom(a, b, k + 1))

BMul(a, b) == BNorm(BMulFrom(a, b, 1))

\* the bits of a digit
RECURSIVE BitsOf(_)
BitsOf(d) == IF d = 0 THEN 0 ELSE 1 + BitsOf(d \div 2)

BBitLen(a) ==
    IF a = << >> THEN 0 ELSE (Len(a) - 1) * LimbBits + BitsOf(a[Len(a)])

\* a * 2^s
BShl(a, s) ==
    IF a = << >>
    THEN << >>
    ELSE [j \in 1 .. s \div LimbBits |-> 0] \o BMulDigit(a, Pow2(s % LimbBits))

\* a \div 2^s
BShr(a, s) ==
    LET whole == s \div LimbBits
        part  == s % LimbBits
        rest  == IF whole >= Len(a) THEN << >> ELSE SubSeq(a, whole + 1, Len(a))
    IN  BNorm([k \in DOMAIN rest |->
                  (rest[k] \div Pow2(part))
                      + (Digit(rest, k + 1) % Pow2(part)) * Pow2(LimbBits - part)])

BIsOdd(a) == a # << >> /\ a[1] % 2 = 1

\* a \div d and a % d for an int d below LimbBase, from the highest digit
\* down: << quotient digits, remainder >>
RECURSIVE BDivDigitFrom(_, _, _, _)
BDivDigitFrom(a, d, k, rem) ==
    IF k = 0
    THEN << << >>, rem >>
    ELSE LET t    == rem * LimbBase + a[k]
             rest == BDivDigitFrom(a, d, k - 1, t % d)
         IN  << Append(rest[1], t \div d), rest[2] >>

BDivDigit(a, d) ==
    LET r == BDivDigitFrom(a, d, Len(a), 0)
    IN  << BNorm(r[1]), r[2] >>

\* the bits at the low end of a that are zero, a not being zero
RECURSIVE TrailingZeros(_)
TrailingZeros(a) ==
    IF a[1] = 0
    THEN LimbBits + TrailingZeros(Tail(a))
    ELSE IF a[1] % 2 = 0 THEN 1 + TrailingZeros(BShr(a, 1)) ELSE 0

\* the float m * 2^e in its one form: m odd, or m and e zero
Float(m, e) ==
    IF m = << >>
    THEN [m |-> << >>, e |-> 0]
    ELSE LET z == TrailingZeros(m) IN [m |-> BShr(m, z), e |-> e + z]

\* the float nearest to (m + f) * 2^e, where 0 < f < 1 if sticky and f = 0
\* if not: round to MantissaBits bits, a tie to the even significand
FRound(m, e, sticky) ==
    LET s == BBitLen(m) - MantissaBits
    IN  IF s <= 0
        THEN Float(m, e)
        ELSE LET q    == BShr(m, s)
                 r    == BSub(m, BShl(q, s))
                 half == BShl(<< 1 >>, s - 1)
                 c    == BCmp(r, half)
                 up   == c > 0 \/ (c = 0 /\ (sticky \/ BIsOdd(q)))
             IN  Float(IF up THEN BAdd(q, << 1 >>) ELSE q, e + s)

\* the guard bits of a quotient, so that it has more than MantissaBits bits
GuardBits == 70

\* float(a) / float(b) for ints a >= 0 and 0 < b < LimbBase; a decimal
\* literal with digits a and 10^k = b reads as the same float
FDivInt(a, b) ==
    LET qr == BDivDigit(BShl(BFromInt(a), GuardBits), b)
    IN  FRound(qr[1], 0 - GuardBits, qr[2] # 0)

\* x * y
FMul(x, y) == FRound(BMul(x.m, y.m), x.e + y.e, FALSE)

\* x + y
FAdd(x, y) ==
    LET e == IF x.e < y.e THEN x.e ELSE y.e
    IN  FRound(BAdd(BShl(x.m, x.e - e), BShl(y.m, y.e - e)), e, FALSE)

(***************************************************************************)
(* ingest_voters_to_supabase.py: convert_crop_units.  The string of        *)
(* --ocr-crop is the sequence of its fields between the commas; the empty  *)
(* string has none.  A field that float() accepts is a decimal literal,    *)
(* its digits over a power of ten; any other field makes float() raise.    *)
(***************************************************************************)
\* the PDF points of an inch, the 72.0 of lines 126 and 143
PointsPerInch == 72

Literal(digits, pow10) == [numeric |-> TRUE, digits |-> digits, pow10 |-> pow10]

NotNumeric == [numeric |-> FALSE, digits |-> 0, pow10 |-> 1]

\* float(s.strip()) of a field that is a literal
ParseFloat(field) == FDivInt(field.digits, field.pow10)

\* x, y, w, h = [float(s.strip()) for s in crop_str.split(",")] succeeds
Unpacks(crop_str) ==
    /\ Len(crop_str) = 4
    /\ \A k \in DOMAIN crop_str : crop_str[k].numeric

\* a conversion that scales pixels by dpi / 72 instead of 72 / dpi
convert_crop_units_ScaleUp(crop_str, units, dpi) ==
    IF crop_str = << >>
    THEN [kind |-> "None"]
    ELSE IF ~Unpacks(crop_str)
         THEN [kind |-> "ValueError"]
         ELSE IF units = "px" /\ dpi = 0
              THEN [kind |-> "ZeroDivisionError"]
              ELSE LET p     == [k \in 1 .. 4 |-> ParseFloat(crop_str[k])]
                       scale == FDivInt(dpi, PointsPerInch)
                       q     == IF units = "px"
                                THEN [k \in 1 .. 4 |-> FMul(p[k], scale)]
                                ELSE p
                   IN  [kind |-> "rect",
                        rect |-> << q[1], q[2], FAdd(q[1], q[3]), FAdd(q[2], q[4]) >>]

convert_crop_units(crop_str, units, dpi) ==
    IF crop_str = << >>
    THEN [kind |-> "None"]
    ELSE IF ~Unpacks(crop_str)
         THEN [kind |-> "ValueError"]
         ELSE IF units = "px" /\ dpi = 0
              THEN [kind |-> "ZeroDivisionError"]
              ELSE LET p     == [k \in 1 .. 4 |-> ParseFloat(crop_str[k])]
                       scale == FDivInt(PointsPerInch, dpi)
                       q     == IF units = "px"
                                THEN [k \in 1 .. 4 |-> FMul(p[k], scale)]
                                ELSE p
                   IN  [kind |-> "rect",
                        rect |-> << q[1], q[2], FAdd(q[1], q[3]), FAdd(q[2], q[4]) >>]

\* render_page_for_ocr, lines 126-129: the matrix of zoom = dpi / 72.0 takes
\* the corners of the clip, in points, to pixels
ClipInPixels(rect, dpi) ==
    LET zoom == FDivInt(dpi, PointsPerInch)
    IN  [k \in 1 .. 4 |-> FMul(rect[k], zoom)]

(***************************************************************************)
(* The state.                                                              *)
(***************************************************************************)
VARIABLES
    args,        \* the parsed command line of the run
    env,         \* the environment variables that are set
    folder,      \* the files of the input folder
    page_count,  \* doc.page_count of every PDF of the folder
    run,         \* the number of the run of main(), from 1
    pc,          \* the position of main()
    di,          \* the index in pdf_files of the document of the outer loop
    i,           \* the index of the page of the inner loop, from 0
    full_url,    \* the local full_url
    single_url,  \* the local single_url
    lines,       \* the local lines
    voter_ids,   \* the local voter_ids
    log,         \* what the run printed, to stdout and stderr, in order
    exit_code,   \* << >> while the process runs, then << its exit status >>
    error,       \* the exception that ended the process, or "none"
    store,       \* the bucket of the object store: path -> object
    table,       \* the rows of the table, in insertion order
    fn           \* the call in hand of the specification of the functions

vars ==
    << args, env, folder, page_count, run, pc, di, i, full_url, single_url,
       lines, voter_ids, log, exit_code, error, store, table, fn >>

inputs == << args, env, folder, page_count >>

(***************************************************************************)
(* What the world hands the program.                                       *)
(***************************************************************************)
RequiredEnv == { "SUPABASE_URL", "SUPABASE_ANON_KEY", "SUPABASE_BUCKET" }

\* the environments of the model: all set, or one missing
Envs == { RequiredEnv } \cup { RequiredEnv \ { v } : v \in RequiredEnv }

\* the value of SUPABASE_BUCKET
BucketName == "voters"

\* --ocr-crop: not given; a rectangle on the page; a rectangle off the page;
\* a string that does not parse
Crops == { "none", "inside", "outside", "unparseable" }

\* --storage-prefix as given: the default
StoragePrefixes == { << "v", "o", "t", "e", "r", "s" >> }

Args ==
    [pdf_folder_ok : BOOLEAN, storage_prefix : StoragePrefixes,
     ocr_crop : Crops, regex : { DefaultRegex, InvalidRegex }]

\* the lines of the worked example of extraction, as the OCR wrapper
\* returns them
ExampleLines ==
    << << "A", "B", "/", "1", "2" >>, << "x", "x" >>,
       << "A", "B", "1", "2" >>, << "C", "D", "/", "3", "4" >> >>

\* the text of the worked example, one line under the other
ExampleText ==
    << "A", "B", "/", "1", "2", "\n", "x", "x", "\n", "A", "B", "1", "2", "\n",
       "C", "D", "/", "3", "4", "\n" >>

Response(err, full, desc) == [error |-> err, full_text |-> full, description |-> desc]

\* what the OCR service may answer for a page: an error; a page without
\* text; text without a candidate, in the first annotation alone; the
\* worked example
OcrResponses ==
    { Response("quota exceeded", << >>, << >>),
      Response("", << >>, << >>),
      Response("", << >>, << " ", "-", "-", "\n" >>),
      Response("", ExampleText, << >>) }

NoUrl == [bucket |-> "", path |-> << >>]

NoFile == [stem |-> << >>, suffix |-> << >>]

\* one printed line
Entry(msg, f, page_num, n) == [msg |-> msg, doc |-> f, page |-> page_num, n |-> n]

(***************************************************************************)
(* main(): the locals computed at start-up.                                *)
(***************************************************************************)
pdf_files == PdfFilesOf(folder)

storage_prefix == StripChar(args.storage_prefix, "/")

pdf_path == pdf_files[di]

page_num == i + 1

\* a check of the URL and the key alone
missing_UrlAndKey == { "SUPABASE_URL", "SUPABASE_ANON_KEY" } \ env

\* supabase_client_from_env: the variables that are not set
missing == RequiredEnv \ env

(***************************************************************************)
(* The ways main() ends.                                                   *)
(***************************************************************************)
\* sys.exit(1) after a message on stderr
ExitWith(msg) ==
    /\ pc' = "Exited"
    /\ exit_code' = << 1 >>
    /\ log' = Append(log, Entry(msg, NoFile, 0, 0))
    /\ UNCHANGED error

\* an exception nothing catches: the traceback on stderr, exit status 1
Raise(printed, exc, f, n) ==
    /\ pc' = "Crashed"
    /\ exit_code' = << 1 >>
    /\ error' = exc
    /\ log' = Append(printed, Entry("Traceback", f, n, 0))

\* an end of a turn that leaves the document as a break would: the pages
\* after the page in hand are not visited
NextPage_Break(printed) ==
    /\ UNCHANGED error
    /\ IF di < Len(pdf_files)
       THEN /\ pc' = "FullUpload"
            /\ i' = 0
            /\ di' = di + 1
            /\ log' = printed
            /\ UNCHANGED exit_code
       ELSE /\ pc' = "Done"
            /\ UNCHANGED << di, i >>
            /\ log' = Append(printed, Entry("Done", NoFile, 0, 0))
            /\ exit_code' = << 0 >>

\* the end of one turn of the page loop: the next page, the next document
\* (after doc.close()), or print("Done.") and the end of main()
NextPage(printed) ==
    /\ UNCHANGED error
    /\ IF i + 1 < page_count[pdf_path]
       THEN /\ pc' = "SplitAndUpload"
            /\ i' = i + 1
            /\ di' = di
            /\ log' = printed
            /\ UNCHANGED exit_code
       ELSE IF di < Len(pdf_files)
            THEN /\ pc' = "FullUpload"
                 /\ i' = 0
                 /\ di' = di + 1
                 /\ log' = printed
                 /\ UNCHANGED exit_code
            ELSE /\ pc' = "Done"
                 /\ UNCHANGED << di, i >>
                 /\ log' = Append(printed, Entry("Done", NoFile, 0, 0))
                 /\ exit_code' = << 0 >>

(***************************************************************************)
(* main(): start-up, lines 176-193.                                        *)
(***************************************************************************)
\* a start-up without the test of line 191: the loop over no document is
\* left at once and main() prints "Done."
Startup_NoEmptyCheck ==
    /\ pc = "Startup"
    /\ IF ~args.pdf_folder_ok
       THEN ExitWith("FolderNotFound") /\ UNCHANGED << di, i >>
       ELSE IF missing # { }
            THEN ExitWith("MissingEnv") /\ UNCHANGED << di, i >>
            ELSE IF args.ocr_crop = "unparseable"
                 THEN Raise(log, "ValueError", NoFile, 0) /\ UNCHANGED << di, i >>
                 ELSE IF pdf_files = << >>
                      THEN /\ pc' = "Done"
                           /\ exit_code' = << 0 >>
                           /\ log' = Append(log, Entry("Done", NoFile, 0, 0))
                           /\ UNCHANGED << di, i, error >>
                      ELSE /\ pc' = "FullUpload"
                           /\ di' = 1
                           /\ i' = 0
                           /\ UNCHANGED << log, exit_code, error >>
    /\ UNCHANGED << inputs, run, full_url, single_url, lines, voter_ids,
                    store, table, fn >>

Startup ==
    /\ pc = "Startup"
    /\ IF ~args.pdf_folder_ok
       THEN ExitWith("FolderNotFound") /\ UNCHANGED << di, i >>
       ELSE IF missing # { }
            THEN ExitWith("MissingEnv") /\ UNCHANGED << di, i >>
            ELSE IF args.ocr_crop = "unparseable"
                 THEN Raise(log, "ValueError", NoFile, 0) /\ UNCHANGED << di, i >>
                 ELSE IF pdf_files = << >>
                      THEN ExitWith("NoPdfs") /\ UNCHANGED << di, i >>
                      ELSE /\ pc' = "FullUpload"
                           /\ di' = 1
                           /\ i' = 0
                           /\ UNCHANGED << log, exit_code, error >>
    /\ UNCHANGED << inputs, run, full_url, single_url, lines, voter_ids,
                    store, table, fn >>

(***************************************************************************)
(* upload_and_get_url: the object the upload writes.                       *)
(***************************************************************************)
Object(f, n, suffix) ==
    [bytes |-> [file |-> f, page |-> n], content_type |-> ContentType(suffix),
     run |-> run]

(***************************************************************************)
(* main(): the full PDF of a document, lines 195-204.                      *)
(***************************************************************************)
FullUpload ==
    /\ pc = "FullUpload"
    /\ LET path    == FullStoragePath(storage_prefix, pdf_path)
           printed == Append(log, Entry("Processing", pdf_path, 0, 0))
       IN  \E reached \in BOOLEAN :
               IF ~reached
               THEN /\ Raise(printed, "StorageError", pdf_path, 0)
                    /\ UNCHANGED << store, full_url, i >>
               ELSE IF Duplicate(store, path)
                    THEN /\ Raise(printed, "Duplicate", pdf_path, 0)
                         /\ UNCHANGED << store, full_url, i >>
                    ELSE /\ store' = PutObject(store, path,
                                         Object(pdf_path, 0, pdf_path.suffix))
                         /\ full_url' = PublicUrl(BucketName, path)
                         /\ log' = Append(printed,
                                       Entry("UploadedFull", pdf_path, 0, 0))
                         /\ pc' = "SplitAndUpload"
                         /\ i' = 0
                         /\ UNCHANGED << exit_code, error >>
    /\ UNCHANGED << inputs, run, di, single_url, lines, voter_ids, table, fn >>

(***************************************************************************)
(* main(): the single-page PDF of a page, lines 205-223.                   *)
(***************************************************************************)
SplitAndUpload ==
    /\ pc = "SplitAndUpload"
    /\ LET path == SingleStoragePath(storage_prefix, pdf_path, page_num)
       IN  \E outcome \in { "ok", "split fails", "upload fails" } :
               IF outcome = "split fails"
               THEN /\ Raise(log, "PdfError", pdf_path, page_num)
                    /\ UNCHANGED << store, single_url >>
               ELSE IF outcome = "upload fails"
                    THEN /\ Raise(log, "StorageError", pdf_path, page_num)
                         /\ UNCHANGED << store, single_url >>
                    ELSE IF Duplicate(store, path)
                         THEN /\ Raise(log, "Duplicate", pdf_path, page_num)
                              /\ UNCHANGED << store, single_url >>
                         ELSE /\ store' = PutObject(store, path,
                                              Object(pdf_path, page_num, DotPdf))
                              /\ single_url' = PublicUrl(BucketName, path)
                              /\ log' = Append(log, Entry("UploadedSingle",
                                                          pdf_path, page_num, 0))
                              /\ pc' = "Render"
                              /\ UNCHANGED << exit_code, error >>
    /\ UNCHANGED << inputs, run, di, i, full_url, lines, voter_ids, table, fn >>

(***************************************************************************)
(* main(): render_page_for_ocr, line 226.  The clip is handed to           *)
(* get_pixmap as it is; for a rectangle off the page the engine either     *)
(* raises or returns an image without content.                             *)
(***************************************************************************)
Render ==
    /\ pc = "Render"
    /\ \E raises \in BOOLEAN :
           IF raises /\ args.ocr_crop = "outside"
           THEN Raise(log, "RenderError", pdf_path, page_num)
           ELSE /\ pc' = "OCR"
                /\ UNCHANGED << log, exit_code, error >>
    /\ UNCHANGED << inputs, run, di, i, full_url, single_url, lines,
                    voter_ids, store, table, fn >>

(***************************************************************************)
(* main(): ocr_image_texts, lines 227-236.  The RuntimeError of            *)
(* ocr_image_texts passes the finally clause and leaves main().            *)
(***************************************************************************)
OCR ==
    /\ pc = "OCR"
    /\ \E response \in OcrResponses :
           IF VisionError(response)
           THEN /\ Raise(log, "VisionError", pdf_path, page_num)
                /\ UNCHANGED lines
           ELSE /\ lines' = ocr_image_texts(response)
                /\ pc' = "Extract"
                /\ UNCHANGED << log, exit_code, error >>
    /\ UNCHANGED << inputs, run, di, i, full_url, single_url, voter_ids,
                    store, table, fn >>

(***************************************************************************)
(* main(): extract_ids_from_lines and the empty result, lines 238-241.     *)
(***************************************************************************)
\* an extraction without the test of line 239: the insert is made for a
\* page without identifiers too
Extract_NoEmptyTest ==
    /\ pc = "Extract"
    /\ IF ~Compiles(args.regex)
       THEN /\ Raise(log, "re.error", pdf_path, page_num)
            /\ UNCHANGED << voter_ids, di, i >>
       ELSE /\ voter_ids' = extract_ids_from_lines(lines, args.regex)
            /\ pc' = "Insert"
            /\ UNCHANGED << di, i, log, exit_code, error >>
    /\ UNCHANGED << inputs, run, full_url, single_url, lines, store, table, fn >>

Extract ==
    /\ pc = "Extract"
    /\ IF ~Compiles(args.regex)
       THEN /\ Raise(log, "re.error", pdf_path, page_num)
            /\ UNCHANGED << voter_ids, di, i >>
       ELSE LET ids == extract_ids_from_lines(lines, args.regex)
            IN  /\ voter_ids' = ids
                /\ IF ids = << >>
                   THEN NextPage(Append(log, Entry("NoIds", pdf_path, page_num, 0)))
                   ELSE /\ pc' = "Insert"
                        /\ UNCHANGED << di, i, log, exit_code, error >>
    /\ UNCHANGED << inputs, run, full_url, single_url, lines, store, table, fn >>

(***************************************************************************)
(* main(): the batch insert of a page, lines 243-256.                      *)
(***************************************************************************)
\* a batch whose rows are in the reverse of the order of discovery
rows_Reversed ==
    [k \in DOMAIN voter_ids |->
        [voter_id |-> voter_ids[Len(voter_ids) + 1 - k],
         single_page_pdf_link |-> single_url, full_pdf_link |-> full_url]]

rows ==
    [k \in DOMAIN voter_ids |->
        [voter_id |-> voter_ids[k], single_page_pdf_link |-> single_url,
         full_pdf_link |-> full_url]]

\* an insert whose reported error is printed and then ends the run
InsertRaisesOnError(acked) ==
    IF acked
    THEN /\ table' = table \o rows
         /\ NextPage(Append(log, Entry("Inserted", pdf_path, page_num, Len(rows))))
    ELSE /\ table' = table
         /\ Raise(Append(log, Entry("InsertError", pdf_path, page_num, 0)),
                  "InsertError", pdf_path, page_num)
         /\ UNCHANGED << di, i >>

\* an insert that replaces the rows of the table that hold an identifier of
\* the batch, as an upsert on voter_id would
InsertAndReport_Upsert(acked) ==
    /\ table' = IF acked
                THEN SelectSeq(table,
                         LAMBDA r : \A k \in DOMAIN rows : rows[k].voter_id # r.voter_id)
                     \o rows
                ELSE table
    /\ NextPage(Append(log,
           IF acked
           THEN Entry("Inserted", pdf_path, page_num, Len(rows))
           ELSE Entry("InsertError", pdf_path, page_num, 0)))

\* the response of supa.table(table).insert(rows).execute() and the test of
\* its error attribute: an acknowledged batch is in the table, a reported
\* error is printed, and the loop goes on either way
InsertAndReport(acked) ==
    /\ table' = IF acked THEN table \o rows ELSE table
    /\ NextPage(Append(log,
           IF acked
           THEN Entry("Inserted", pdf_path, page_num, Len(rows))
           ELSE Entry("InsertError", pdf_path, page_num, 0)))

Insert ==
    /\ pc = "Insert"
    /\ \E acked \in BOOLEAN : InsertAndReport(acked)
    /\ UNCHANGED << inputs, run, full_url, single_url, lines, voter_ids,
                    store, fn >>

(***************************************************************************)
(* The operator runs the pipeline again on the same folder.                *)
(***************************************************************************)
Rerun ==
    /\ pc \in { "Done", "Crashed", "Exited" }
    /\ run < MaxRuns
    /\ run' = run + 1
    /\ pc' = "Startup"
    /\ di' = 1
    /\ i' = 0
    /\ full_url' = NoUrl
    /\ single_url' = NoUrl
    /\ lines' = << >>
    /\ voter_ids' = << >>
    /\ log' = << >>
    /\ exit_code' = << >>
    /\ error' = "none"
    /\ UNCHANGED << inputs, store, table, fn >>

NoCall == [op |-> "none"]

\* the state when main() is entered for the first time, the folder being
\* one of dirs
InitIn(dirs) ==
    /\ args \in Args
    /\ env \in Envs
    /\ folder \in dirs
    /\ page_count \in [{ f \in folder : Lower(f.suffix) = DotPdf } -> 1 .. MaxPages]
    /\ run = 1
    /\ pc = "Startup"
    /\ di = 1
    /\ i = 0
    /\ full_url = NoUrl
    /\ single_url = NoUrl
    /\ lines = << >>
    /\ voter_ids = << >>
    /\ log = << >>
    /\ exit_code = << >>
    /\ error = "none"
    /\ store = << >>
    /\ table = << >>
    /\ fn = NoCall

Init == InitIn(Folders)

\* one run of the pipeline over a folder
Next ==
    \/ Startup
    \/ FullUpload
    \/ SplitAndUpload
    \/ Render
    \/ OCR
    \/ Extract
    \/ Insert

Spec == Init /\ [][Next]_vars

\* the folders that are ingested more than once: one document, and a file
\* that is none
RerunFolders == { { FolderOrder[2], FolderOrder[4] } }

InitRerun == InitIn(RerunFolders)

\* up to MaxRuns runs of the pipeline over the same folder, one after the
\* other, the store and the table kept
NextRerun ==
    \/ Next
    \/ Rerun

SpecRerun == InitRerun /\ [][NextRerun]_vars

(***************************************************************************)
(* The functions on their own: extract_ids_from_lines on a page of OCR     *)
(* lines, then search_voter of main.py for a candidate of that page, the   *)
(* table holding the identifiers the page gave.                            *)
(***************************************************************************)
\* the characters of a generated page text
Alphabet == { "a", "/", " ", "\n" }

\* the strings of exactly n characters
RECURSIVE StringsOfLen(_)
StringsOfLen(n) ==
    IF n = 0
    THEN { << >> }
    ELSE { Append(s, c) : s \in StringsOfLen(n - 1), c \in Alphabet }

\* the page texts of the model, the worked example among them
FnTexts == UNION { StringsOfLen(n) : n \in 0 .. MaxLen } \cup { ExampleText }

\* the patterns of the model: the default, the default with the blank, and
\* a class with the star
FnPatterns ==
    { DefaultRegex,
      [cls |-> DefaultRegex.cls \cup { " " }, quant |-> "+"],
      [cls |-> { "a", "/" }, quant |-> "*"] }

\* the matches of the page that an identifier came from
Candidates(ls, pattern) ==
    { m \in UNION { { FindAll(ls[k], pattern)[j] :
                        j \in DOMAIN FindAll(ls[k], pattern) } : k \in DOMAIN ls } :
        clean_voter_id(m) # << >> }

CallExtract ==
    /\ fn.op = "input"
    /\ fn' = [op |-> "extracted", lines |-> fn.lines, pattern |-> fn.pattern,
              ids |-> extract_ids_from_lines(fn.lines, fn.pattern)]
    /\ UNCHANGED << inputs, run, pc, di, i, full_url, single_url, lines,
                    voter_ids, log, exit_code, error, store, table >>

\* main.py, search_voter, lines 108-123: the status of the answer
SearchStatus(norm_id, stored) ==
    IF ~VOTER_ID_ALLOWED(norm_id)
    THEN 400
    ELSE IF \E k \in DOMAIN stored : stored[k] = norm_id THEN 200 ELSE 404

SearchVoter ==
    /\ fn.op = "extracted"
    /\ \E raw \in Candidates(fn.lines, fn.pattern) :
           LET norm_id == normalize_voter_id(raw)
           IN  fn' = [op |-> "searched", lines |-> fn.lines,
                      pattern |-> fn.pattern, ids |-> fn.ids, raw |-> raw,
                      norm_id |-> norm_id,
                      status |-> SearchStatus(norm_id, fn.ids)]
    /\ UNCHANGED << inputs, run, pc, di, i, full_url, single_url, lines,
                    voter_ids, log, exit_code, error, store, table >>

\* a raw identifier longer than the cap of normalize_voter_id: a separator,
\* a blank, then letters and digits
LongRaw ==
    [k \in 1 .. NormCap + 3 |->
        IF k = 1 THEN "/" ELSE IF k = 2 THEN " " ELSE IF k % 2 = 0 THEN "a" ELSE "7"]

\* the strings the two normalizations are applied to: the lines of the
\* page, the raw matches of the pattern in them, and the long identifier
NormInputs(ls, pattern) ==
    { ls[k] : k \in DOMAIN ls }
        \cup UNION { { FindAll(ls[k], pattern)[j] :
                           j \in DOMAIN FindAll(ls[k], pattern) } : k \in DOMAIN ls }
        \cup { LongRaw }

\* clean_voter_id and normalize_voter_id, each applied to a string and then
\* to its own result
Normalize ==
    /\ fn.op = "extracted"
    /\ \E x \in NormInputs(fn.lines, fn.pattern) :
           fn' = [op |-> "normalized", lines |-> fn.lines,
                  pattern |-> fn.pattern, ids |-> fn.ids, x |-> x,
                  cleaned |-> clean_voter_id(x),
                  cleaned_twice |-> clean_voter_id(clean_voter_id(x)),
                  norm |-> normalize_voter_id(x),
                  norm_twice |-> normalize_voter_id(normalize_voter_id(x))]
    /\ UNCHANGED << inputs, run, pc, di, i, full_url, single_url, lines,
                    voter_ids, log, exit_code, error, store, table >>

InitFn ==
    /\ args = [pdf_folder_ok |-> TRUE,
               storage_prefix |-> << "v", "o", "t", "e", "r", "s" >>,
               ocr_crop |-> "none", regex |-> DefaultRegex]
    /\ env = RequiredEnv
    /\ folder = { }
    /\ page_count = << >>
    /\ run = 1
    /\ pc = "Startup"
    /\ di = 1
    /\ i = 0
    /\ full_url = NoUrl
    /\ single_url = NoUrl
    /\ lines = << >>
    /\ voter_ids = << >>
    /\ log = << >>
    /\ exit_code = << >>
    /\ error = "none"
    /\ store = << >>
    /\ table = << >>
    /\ \E text \in FnTexts, pattern \in FnPatterns :
           fn = [op |-> "input",
                 lines |-> ocr_image_texts(Response("", text, << >>)),
                 pattern |-> pattern]

NextFn ==
    \/ CallExtract
    \/ SearchVoter
    \/ Normalize

SpecFn == InitFn /\ [][NextFn]_vars

(***************************************************************************)
(* The coordinate functions on their own: convert_crop_units on the        *)
(* --ocr-crop, --units and --dpi of a command line, then the matrix of     *)
(* render_page_for_ocr on the rectangle it returned.                       *)
(***************************************************************************)
\* the literals of a field: "1", "0", "457.44", "105.6" (the last two from
\* the usage text, line 23), "0.5"
CoordOrder ==
    << Literal(1, 1), Literal(0, 1), Literal(45744, 100), Literal(1056, 10),
       Literal(5, 10) >>

CoordFields ==
    { CoordOrder[k] : k \in 1 .. (IF MaxCoords < Len(CoordOrder)
                                  THEN MaxCoords ELSE Len(CoordOrder)) }

\* the strings of --ocr-crop: the empty one (the default), four literals,
\* and strings that do not unpack: a blank one, three fields, five fields,
\* a field that is no number
CropStrings ==
    { << >> }
        \cup [1 .. 4 -> CoordFields]
        \cup { << NotNumeric >>,
               << CoordOrder[1], CoordOrder[1], CoordOrder[1] >>,
               << CoordOrder[1], CoordOrder[1], CoordOrder[1], CoordOrder[1],
                  CoordOrder[1] >>,
               << CoordOrder[1], CoordOrder[1], NotNumeric, CoordOrder[1] >> }

\* the values of --dpi: none at all, the points of an inch, the default,
\* the value of the usage text
Dpis == { 0, PointsPerInch, 200, 300 }

ConvertCrop ==
    /\ fn.op = "crop"
    /\ fn' = [op |-> "converted", crop_str |-> fn.crop_str, units |-> fn.units,
              dpi |-> fn.dpi,
              result |-> convert_crop_units(fn.crop_str, fn.units, fn.dpi)]
    /\ UNCHANGED << inputs, run, pc, di, i, full_url, single_url, lines,
                    voter_ids, log, exit_code, error, store, table >>

RenderClip ==
    /\ fn.op = "converted"
    /\ fn.result.kind = "rect"
    /\ fn' = [op |-> "rendered", crop_str |-> fn.crop_str, units |-> fn.units,
              dpi |-> fn.dpi, result |-> fn.result,
              pixels |-> ClipInPixels(fn.result.rect, fn.dpi)]
    /\ UNCHANGED << inputs, run, pc, di, i, full_url, single_url, lines,
                    voter_ids, log, exit_code, error, store, table >>

InitCrop ==
    /\ args = [pdf_folder_ok |-> TRUE,
               storage_prefix |-> << "v", "o", "t", "e", "r", "s" >>,
               ocr_crop |-> "none", regex |-> DefaultRegex]
    /\ env = RequiredEnv
    /\ folder = { }
    /\ page_count = << >>
    /\ run = 1
    /\ pc = "Startup"
    /\ di = 1
    /\ i = 0
    /\ full_url = NoUrl
    /\ single_url = NoUrl
    /\ lines = << >>
    /\ voter_ids = << >>
    /\ log = << >>
    /\ exit_code = << >>
    /\ error = "none"
    /\ store = << >>
    /\ table = << >>
    /\ \E crop_str \in CropStrings, units \in { "pt", "px" }, dpi \in Dpis :
           fn = [op |-> "crop", crop_str |-> crop_str, units |-> units, dpi |-> dpi]

NextCrop ==
    \/ ConvertCrop
    \/ RenderClip

SpecCrop == InitCrop /\ [][NextCrop]_vars

(***************************************************************************)
(* Properties.                                                             *)
(***************************************************************************)
RunEnded == pc \in { "Done", "Crashed", "Exited" }

Printed(msg, f, n) ==
    \E k \in DOMAIN log : log[k].msg = msg /\ log[k].doc = f /\ log[k].page = n

\* the place of a document in pdf_files
DocIndex(f) == CHOOSE k \in DOMAIN pdf_files : pdf_files[k] = f

\* entry e2 is about a page, or a document, that comes after the page of e1
Later(e1, e2) ==
    /\ e2.doc \in { pdf_files[k] : k \in DOMAIN pdf_files }
    /\ \/ DocIndex(e2.doc) > DocIndex(e1.doc)
       \/ e2.doc = e1.doc /\ e2.page > e1.page

\* the rows of the table that link to page n of document f
RowsOfPage(f, n) ==
    { k \in DOMAIN table :
        /\ table[k].single_page_pdf_link
               = PublicUrl(BucketName, SingleStoragePath(storage_prefix, f, n))
        /\ table[k].full_pdf_link
               = PublicUrl(BucketName, FullStoragePath(storage_prefix, f)) }

PdfSet == { pdf_files[k] : k \in DOMAIN pdf_files }

\* C1: if the OCR call of page k of a document reports an error, the run
\* still ends with exit status 0, has uploaded the single-page artifact of
\* every page of the document, and has printed that page k was skipped.
C1_OcrFailureIsolated ==
    \A f \in PdfSet : \A k \in 1 .. page_count[f] :
        (RunEnded /\ error = "VisionError" /\ Printed("Traceback", f, k)) =>
            /\ exit_code = << 0 >>
            /\ \A n \in 1 .. page_count[f] : Printed("UploadedSingle", f, n)

\* C2: a failed upload of the full PDF of a document does not abort the
\* run: no page of the document is processed, and the run goes on to the
\* documents after it and ends at Done.
C2_FullUploadFailureSkipsDocument ==
    \A f \in PdfSet :
        (RunEnded /\ Printed("Traceback", f, 0)) =>
            /\ pc = "Done"
            /\ \A n \in 1 .. page_count[f] : ~Printed("UploadedSingle", f, n)
            /\ \A g \in PdfSet : Printed("Processing", g, 0)

\* C3: an insert error is printed and is not fatal: right after it main()
\* stands at the next page (or the next document, or Done) with the process
\* still running, and every batch acknowledged after it is in the table.
C3_InsertErrorNonFatal ==
    \A k \in DOMAIN log :
        log[k].msg = "InsertError" =>
            /\ IF k = Len(log)
               THEN /\ exit_code = << >>
                    /\ \/ /\ pc = "SplitAndUpload"
                          /\ pdf_path = log[k].doc
                          /\ page_num = log[k].page + 1
                       \/ /\ pc = "FullUpload"
                          /\ log[k].page = page_count[log[k].doc]
                          /\ di = DocIndex(log[k].doc) + 1
                          /\ i = 0
               ELSE \/ log[k + 1].msg = "Done" /\ exit_code = << 0 >>
                    \/ Later(log[k], log[k + 1])
            /\ \A j \in (k + 1) .. Len(log) :
                   log[j].msg = "Inserted" =>
                       Cardinality(RowsOfPage(log[j].doc, log[j].page)) >= log[j].n

\* a run that went on after an insert error: a later batch was inserted and
\* the run reached Done
C3_Witness ==
    /\ pc = "Done"
    /\ \E k \in DOMAIN log : \E j \in DOMAIN log :
           /\ k < j
           /\ log[k].msg = "InsertError"
           /\ log[j].msg = "Inserted"
           /\ Cardinality(RowsOfPage(log[j].doc, log[j].page)) >= log[j].n

\* C4: a failure to split out or to upload the single page of one page
\* stays with that page: the run goes on, every later page of the document
\* has its single page uploaded, and the run ends at Done.
C4_SplitUploadFailureIsPageLocal ==
    \A f \in PdfSet : \A k \in 1 .. page_count[f] :
        ( /\ RunEnded
          /\ error \in { "PdfError", "StorageError" }
          /\ Printed("Traceback", f, k) ) =>
            /\ pc = "Done"
            /\ \A n \in (k + 1) .. page_count[f] : Printed("UploadedSingle", f, n)

\* C5: once the start-up checks have passed, a run ends at Done, whatever
\* the object store, the OCR service and the table store do.
C5_RunReachesDone ==
    (RunEnded /\ \E k \in DOMAIN log : log[k].msg = "Processing") => pc = "Done"

\* C6: the look-up of a candidate whose identifier the ingest stored finds
\* it: normalize_voter_id gives the value clean_voter_id stored.
C6_QueryFindsStored ==
    fn.op = "searched" =>
        /\ fn.norm_id = clean_voter_id(fn.raw)
        /\ fn.status = 200

\* the paths a run over the folder writes: they depend on the prefix, the
\* names of the documents and the page indices alone
ExpectedPaths ==
    { FullStoragePath(storage_prefix, f) : f \in PdfSet }
        \cup UNION { { SingleStoragePath(storage_prefix, f, n) :
                           n \in 1 .. page_count[f] } : f \in PdfSet }

Uploads == { k \in DOMAIN log : log[k].msg \in { "UploadedFull", "UploadedSingle" } }

UploadedPath(e) ==
    IF e.msg = "UploadedFull"
    THEN FullStoragePath(storage_prefix, e.doc)
    ELSE SingleStoragePath(storage_prefix, e.doc, e.page)

\* C7: uploads can be repeated: no upload fails because its path exists; a
\* run that reaches Done has written exactly the paths of the folder, in
\* every run the same; and the object at a path that this run has written
\* holds the bytes of the latest upload to it.
C7_ReuploadIdempotent ==
    /\ error # "Duplicate"
    /\ DOMAIN store \subseteq ExpectedPaths
    /\ pc = "Done" =>
           /\ { UploadedPath(log[k]) : k \in Uploads } = ExpectedPaths
           /\ DOMAIN store = ExpectedPaths
    /\ \A k \in Uploads :
           LET path == UploadedPath(log[k])
           IN  /\ path \in DOMAIN store
               /\ (\A j \in Uploads : j > k => UploadedPath(log[j]) # path) =>
                      /\ store[path].bytes = [file |-> log[k].doc, page |-> log[k].page]
                      /\ store[path].run = run

\* the second run has just overwritten the full PDF of the first document,
\* whose artifacts the first run had written
C7_Witness ==
    /\ run = 2
    /\ pc = "SplitAndUpload"
    /\ di = 1
    /\ i = 0
    /\ store[FullStoragePath(storage_prefix, pdf_path)].run = 2
    /\ SingleStoragePath(storage_prefix, pdf_path, 1) \in DOMAIN store
    /\ store[SingleStoragePath(storage_prefix, pdf_path, 1)].run = 1

\* C8: after any number of runs over the same folder the table holds one
\* row, and no more, for a page and an identifier found on it.
C8_OneRowPerPageAndIdentifier ==
    \A j \in DOMAIN table : \A k \in DOMAIN table : table[j] = table[k] => j = k

\* the string without its separators and without the blanks at its ends
Trimmed(m) ==
    LET t  == SelectSeq(m, LAMBDA c : c # "/")
        ns == { k \in DOMAIN t : t[k] \notin Whitespace }
    IN  IF ns = { }
        THEN << >>
        ELSE SubSeq(t, CHOOSE a \in ns : \A b \in ns : a <= b,
                       CHOOSE a \in ns : \A b \in ns : a >= b)

\* the matches of the pattern in the lines that are not empty: << n, a, b >>
\* is a longest run of class characters, from a to b, of line n
Matches(ls, pattern) ==
    { o \in UNION { { << n, a, b >> : a \in DOMAIN ls[n], b \in DOMAIN ls[n] } :
                      n \in DOMAIN ls } :
        /\ o[2] <= o[3]
        /\ \A c \in o[2] .. o[3] : ls[o[1]][c] \in pattern.cls
        /\ o[2] = 1 \/ ls[o[1]][o[2] - 1] \notin pattern.cls
        /\ o[3] = Len(ls[o[1]]) \/ ls[o[1]][o[3] + 1] \notin pattern.cls }

MatchText(ls, o) == SubSeq(ls[o[1]], o[2], o[3])

Before(o1, o2) == o1[1] < o2[1] \/ (o1[1] = o2[1] /\ o1[2] < o2[2])

\* the first match of the lines that cleans to v
FirstMatch(ls, pattern, v) ==
    CHOOSE o \in Matches(ls, pattern) :
        /\ Trimmed(MatchText(ls, o)) = v
        /\ \A o2 \in Matches(ls, pattern) :
               Trimmed(MatchText(ls, o2)) = v => (o2 = o \/ Before(o, o2))

\* C9: extract_ids_from_lines returns the cleaned matches of all lines: no
\* empty string, no value twice, every value that a match cleans to, and in
\* the order in which the values are first seen.
C9_ExtractCleansAndDedups ==
    fn.op # "input" =>
        LET out == fn.ids
            ms  == Matches(fn.lines, fn.pattern)
        IN  /\ \A k \in DOMAIN out : out[k] # << >>
            /\ \A j \in DOMAIN out : \A k \in DOMAIN out : out[j] = out[k] => j = k
            /\ { out[k] : k \in DOMAIN out }
                   = { Trimmed(MatchText(fn.lines, o)) : o \in ms } \ { << >> }
            /\ \A j \in DOMAIN out : \A k \in DOMAIN out :
                   j < k => Before(FirstMatch(fn.lines, fn.pattern, out[j]),
                                   FirstMatch(fn.lines, fn.pattern, out[k]))

\* a page on which a value is seen, then another, then the first again, one
\* of the three in a match that holds a separator
C9_Witness ==
    /\ fn.op = "extracted"
    /\ Len(fn.ids) = 2
    /\ LET ms == Matches(fn.lines, fn.pattern)
       IN  /\ Cardinality(ms) = 3
           /\ \E o1 \in ms : \E o2 \in ms : \E o3 \in ms :
                  /\ Before(o1, o2)
                  /\ Before(o2, o3)
                  /\ Trimmed(MatchText(fn.lines, o1)) = fn.ids[1]
                  /\ Trimmed(MatchText(fn.lines, o2)) = fn.ids[2]
                  /\ Trimmed(MatchText(fn.lines, o3)) = fn.ids[1]
           /\ \E o \in ms : MatchText(fn.lines, o) # Trimmed(MatchText(fn.lines, o))

OnExample == fn.op = "extracted" /\ fn.lines = ExampleLines /\ fn.pattern = DefaultRegex

\* C10 as stated: the worked example yields ["AB12", "CD34"].
C10_ExampleAsStated ==
    OnExample => fn.ids = << << "A", "B", "1", "2" >>, << "C", "D", "3", "4" >> >>

\* C10: the worked example yields ["AB12", "xx", "CD34"]: the line "xx" is a
\* run of alphanumerics too, the second "AB12" is dropped, the order is kept.
C10_Example ==
    OnExample =>
        fn.ids = << << "A", "B", "1", "2" >>, << "x", "x" >>,
                    << "C", "D", "3", "4" >> >>

C10_Witness == OnExample /\ Len(fn.ids) = 3

\* C11: normalization is idempotent: clean_voter_id of its own result is
\* that result, and so is normalize_voter_id of its own result.
C11_NormalizeIdempotent ==
    fn.op = "normalized" =>
        /\ fn.cleaned_twice = fn.cleaned
        /\ fn.norm_twice = fn.norm

\* a string that both normalizations change and the cap cuts: removing the
\* separator leaves a blank at an end, which is trimmed; a lower-case letter
\* is raised; more than NormCap characters are left
C11_Witness ==
    /\ fn.op = "normalized"
    /\ LET r == Remove(fn.x, "/")
       IN  /\ r # fn.x
           /\ r # << >>
           /\ r[1] \in Whitespace \/ r[Len(r)] \in Whitespace
           /\ fn.cleaned # r
    /\ fn.cleaned # << >>
    /\ fn.norm # fn.cleaned
    /\ Len(fn.x) > NormCap
    /\ Len(fn.norm) = NormCap

\* the run has made no call to the object store, the OCR service or the
\* table store: main() is at start-up, has ended there, or stands before
\* the upload of the first document; nothing is printed about a document,
\* and nothing that a call returns or writes is there
NoExternalCall ==
    /\ pc \in { "Startup", "Exited", "Crashed", "FullUpload" }
    /\ pc = "FullUpload" => di = 1
    /\ \A k \in DOMAIN log : log[k].doc = NoFile
    /\ store = << >>
    /\ table = << >>
    /\ full_url = NoUrl
    /\ single_url = NoUrl
    /\ lines = << >>

\* C12: with a required environment variable missing the run makes no
\* upload, no OCR call and no insert, and when it has ended it has ended
\* with a non-zero exit status.
C12_MissingEnvFailsFast ==
    env # RequiredEnv =>
        /\ NoExternalCall
        /\ pc \in { "Startup", "Exited" }
        /\ RunEnded => exit_code = << 1 >>

\* the run has exited on the missing variable, with documents in the folder
C12_Witness ==
    /\ env # RequiredEnv
    /\ pc = "Exited"
    /\ exit_code = << 1 >>
    /\ log[Len(log)].msg = "MissingEnv"
    /\ pdf_files # << >>

\* the command line is bad: the folder is missing, --ocr-crop does not
\* parse, or --regex does not compile
InvalidInput ==
    \/ ~args.pdf_folder_ok
    \/ args.ocr_crop = "unparseable"
    \/ ~Compiles(args.regex)

\* C13: a bad command line is found at start-up: the run makes no upload,
\* no OCR call and no insert, and when it has ended it has ended with a
\* non-zero exit status.
C13_InvalidInputAtStartup ==
    InvalidInput =>
        /\ NoExternalCall
        /\ RunEnded => exit_code = << 1 >>

\* C14: a folder without a file whose suffix is .pdf, in any case of the
\* letters, makes the run end with a non-zero exit status without a call
\* to the object store, the OCR service or the table store.
C14_NoDocumentsFailsFast ==
    (\A f \in folder : Lower(f.suffix) # DotPdf) =>
        /\ NoExternalCall
        /\ pc \in { "Startup", "Exited", "Crashed" }
        /\ RunEnded => exit_code = << 1 >>

\* the run has exited on a folder that exists and holds a file, none of
\* them a PDF, every other start-up check having passed
C14_Witness ==
    /\ folder # { }
    /\ \A f \in folder : Lower(f.suffix) # DotPdf
    /\ ~InvalidInput
    /\ env = RequiredEnv
    /\ pc = "Exited"
    /\ exit_code = << 1 >>
    /\ log[Len(log)].msg = "NoPdfs"

\* C15: with a crop rectangle that lies off the page the render step of a
\* page raises no error and produces no image: main() never stands at the
\* OCR call, the extraction or the insert of such a page, and the run is
\* not ended by the renderer.
C15_EmptyIntersectionSkipped ==
    args.ocr_crop = "outside" =>
        /\ error # "RenderError"
        /\ pc \notin { "OCR", "Extract", "Insert" }

\* C16: two uploads of a run that are not the same artifact (another
\* document, another page, or the full PDF and a single page) go to
\* different storage paths, so that none overwrites the other.
C16_DistinctPaths ==
    \A j \in Uploads : \A k \in Uploads :
        ( \/ log[j].doc # log[k].doc
          \/ log[j].page # log[k].page
          \/ log[j].msg # log[k].msg ) =>
            UploadedPath(log[j]) # UploadedPath(log[k])

\* the paths of the two artifacts of the page in hand
SinglePathNow == SingleStoragePath(storage_prefix, pdf_path, page_num)

FullPathNow == FullStoragePath(storage_prefix, pdf_path)

\* one row for every identifier of the page in hand, in the order of
\* discovery, with the URLs of the artifacts of the page and its document
ExpectedRows ==
    LET ids == extract_ids_from_lines(lines, args.regex)
    IN  [k \in DOMAIN ids |->
            [voter_id |-> ids[k],
             single_page_pdf_link |-> PublicUrl(BucketName, SinglePathNow),
             full_pdf_link |-> PublicUrl(BucketName, FullPathNow)]]

\* C17: a page with an identifier gets one insert call and no more: the
\* extraction of such a page leads to the insert, the insert is left in one
\* step that prints one line about the page, the batch is one row for each
\* identifier of the page in the order of discovery, every row with the URL
\* of the single page of that page and of the full PDF of its document,
\* both of which are in the store when the insert is made; the table
\* changes in no other step.
C17_OneBatchPerPage ==
    [][ /\ (pc = "Extract" /\ Compiles(args.regex) /\ ExpectedRows # << >>) =>
               pc' = "Insert"
        /\ pc' = "Insert" => (pc = "Extract" /\ ExpectedRows # << >>)
        /\ pc # "Insert" => table' = table
        /\ pc = "Insert" =>
               /\ pc' # "Insert"
               /\ table' \in { table, table \o ExpectedRows }
               /\ Len(ExpectedRows) > 0
               /\ Len(log') >= Len(log) + 1
               /\ log'[Len(log) + 1].msg \in { "Inserted", "InsertError" }
               /\ log'[Len(log) + 1].doc = pdf_path
               /\ log'[Len(log) + 1].page = page_num
               /\ log'[Len(log) + 1].msg = "Inserted" =>
                      /\ table' = table \o ExpectedRows
                      /\ log'[Len(log) + 1].n = Len(ExpectedRows)
               /\ log'[Len(log) + 1].msg = "InsertError" => table' = table
               /\ \A k \in DOMAIN log :
                      ~ ( /\ log[k].msg \in { "Inserted", "InsertError" }
                          /\ log[k].doc = pdf_path
                          /\ log[k].page = page_num )
               /\ SinglePathNow \in DOMAIN store
               /\ store[SinglePathNow].bytes = [file |-> pdf_path, page |-> page_num]
               /\ FullPathNow \in DOMAIN store
               /\ store[FullPathNow].bytes = [file |-> pdf_path, page |-> 0]
      ]_vars

\* the run has ended after the acknowledged insert of a page with three
\* identifiers, whose three rows are in the table in the order of discovery
C17_Witness ==
    /\ pc = "Done"
    /\ \E k \in DOMAIN log : \E o \in 0 .. Len(table) :
           /\ log[k].msg = "Inserted"
           /\ log[k].n = 3
           /\ o + 3 <= Len(table)
           /\ RowsOfPage(log[k].doc, log[k].page) = { o + 1, o + 2, o + 3 }
           /\ table[o + 1].voter_id = << "A", "B", "1", "2" >>
           /\ table[o + 2].voter_id = << "x", "x" >>
           /\ table[o + 3].voter_id = << "C", "D", "3", "4" >>

\* main() is at a step of the page in hand
InPage == pc \in { "SplitAndUpload", "Render", "OCR", "Extract", "Insert" }

\* page n of document f has reached the end of its turn of the loop
PageDone(f, n) ==
    \E k \in DOMAIN log :
        /\ log[k].msg \in { "NoIds", "Inserted", "InsertError" }
        /\ log[k].doc = f
        /\ log[k].page = n

\* while a page is in hand the full PDF of its document is uploaded, the
\* pages before it are done, and nothing is printed about a later page or
\* a later document
OrderInv ==
    InPage =>
        /\ Printed("UploadedFull", pdf_path, 0)
        /\ \A n \in 1 .. i : Printed("UploadedSingle", pdf_path, n) /\ PageDone(pdf_path, n)
        /\ \A d \in 1 .. di - 1 : \A n \in 1 .. page_count[pdf_files[d]] :
               PageDone(pdf_files[d], n)
        /\ \A k \in DOMAIN log :
               log[k].doc # NoFile =>
                   /\ \E d \in 1 .. di : log[k].doc = pdf_files[d]
                   /\ log[k].doc = pdf_path => log[k].page <= page_num
        /\ ~PageDone(pdf_path, page_num)

\* the page in hand is left for what the loops visit next: the next page of
\* the document, the full PDF of the next document, or the end of main()
ToNext ==
    IF i + 1 < page_count[pdf_path]
    THEN pc' = "SplitAndUpload" /\ di' = di /\ i' = i + 1
    ELSE IF di < Len(pdf_files)
         THEN pc' = "FullUpload" /\ di' = di + 1 /\ i' = 0
         ELSE pc' = "Done"

SamePage == di' = di /\ i' = i

\* the order of the steps of main()
StepOrder ==
    /\ pc = "Startup" =>
           \/ pc' \in { "Exited", "Crashed" }
           \/ pc' = "FullUpload" /\ di' = 1 /\ i' = 0
    /\ pc = "FullUpload" =>
           \/ pc' = "Crashed"
           \/ pc' = "SplitAndUpload" /\ di' = di /\ i' = 0
    /\ pc = "SplitAndUpload" => (pc' = "Crashed" \/ (pc' = "Render" /\ SamePage))
    /\ pc = "Render" => (pc' = "Crashed" \/ (pc' = "OCR" /\ SamePage))
    /\ pc = "OCR" => (pc' = "Crashed" \/ (pc' = "Extract" /\ SamePage))
    /\ pc = "Extract" => (pc' = "Crashed" \/ (pc' = "Insert" /\ SamePage) \/ ToNext)
    /\ pc = "Insert" => ToNext
    /\ pc \in { "Done", "Exited", "Crashed" } => pc' = pc

\* C18: the steps of a run come in the order of the loops: one document
\* after the other, the full PDF of a document before its pages, the pages
\* by increasing index, each page through SplitAndUpload, Render, OCR,
\* Extract and Insert, and no page begun before the page before it is done.
C18_StageOrder == []OrderInv /\ [][StepOrder]_vars

\* the second page of the second document is at its insert, the first
\* document having two pages
C18_Witness ==
    /\ pc = "Insert"
    /\ di = 2
    /\ i = 1
    /\ page_count[pdf_files[1]] = 2
    /\ PageDone(pdf_files[1], 2)
    /\ PageDone(pdf_path, 1)

\* C19: the table only grows at its end: after every step of the pipeline
\* the rows that were in the table are still there, at their places and
\* unchanged, and what is added is the batch of the page in hand, which
\* does not depend on the rows of the table.
C19_AppendOnly ==
    [][ /\ Len(table') >= Len(table)
        /\ SubSeq(table', 1, Len(table)) = table
        /\ table' # table =>
               SubSeq(table', Len(table) + 1, Len(table')) = ExpectedRows
      ]_vars

\* the second run has inserted the rows of a page behind the rows the first
\* run had left in the table
C19_Witness ==
    /\ run = 2
    /\ \E k \in DOMAIN log :
           /\ log[k].msg = "Inserted"
           /\ log[k].n > 0
           /\ Len(table) > log[k].n
           /\ \A j \in DOMAIN log : log[j].msg = "Inserted" => j = k
           /\ RowsOfPage(log[k].doc, log[k].page) # { }

\* C20: a page without an identifier is no error: the step that finds the
\* result empty makes no insert and raises nothing, prints that the page
\* has no identifier, leaves the table as it is and goes on to what the
\* loops visit next; the single page of the page is in the store; and no
\* insert is ever printed, and no row stored, for such a page.
C20_EmptyResultIsNormal ==
    /\ [][ ( /\ pc = "Extract"
              /\ Compiles(args.regex)
              /\ ExpectedRows = << >> ) =>
                /\ ToNext
                /\ table' = table
                /\ error' = "none"
                /\ exit_code' = IF pc' = "Done" THEN << 0 >> ELSE << >>
                /\ log'[Len(log) + 1] = Entry("NoIds", pdf_path, page_num, 0)
                /\ SinglePathNow \in DOMAIN store'
                /\ store'[SinglePathNow].bytes = [file |-> pdf_path, page |-> page_num]
          ]_vars
    /\ [](\A k \in DOMAIN log :
              log[k].msg = "NoIds" =>
                  /\ RowsOfPage(log[k].doc, log[k].page) = { }
                  /\ \A j \in DOMAIN log :
                         (log[j].doc = log[k].doc /\ log[j].page = log[k].page) =>
                             log[j].msg \notin { "Inserted", "InsertError" })

\* the first page of a document had no identifier, the second page has
\* gone through its upload and its insert, and the run has ended at Done
C20_Witness ==
    /\ pc = "Done"
    /\ exit_code = << 0 >>
    /\ \E k \in DOMAIN log :
           /\ log[k].msg = "NoIds"
           /\ log[k].page = 1
           /\ Printed("UploadedSingle", log[k].doc, 1)
           /\ Printed("UploadedSingle", log[k].doc, 2)
           /\ \E j \in DOMAIN log :
                  /\ j > k
                  /\ log[j].msg = "Inserted"
                  /\ log[j].doc = log[k].doc
                  /\ log[j].page = 2
           /\ RowsOfPage(log[k].doc, 1) = { }
           /\ RowsOfPage(log[k].doc, 2) # { }

\* the real number m * 2^e, not rounded
Real(m, e) == [m |-> m, e |-> e]

\* the sum of two floats as a real number
ExactSum(x, y) ==
    LET e == IF x.e < y.e THEN x.e ELSE y.e
    IN  Real(BAdd(BShl(x.m, x.e - e), BShl(y.m, y.e - e)), e)

\* the float f against the real number t * num / den, both scaled by den
\* and by a power of two to natural numbers: << |f - target|, target >>
ErrorOf(f, t, num, den) ==
    LET e == IF f.e < t.e THEN f.e ELSE t.e
        a == BMulDigit(BShl(f.m, f.e - e), den)
        b == BMulDigit(BShl(t.m, t.e - e), num)
    IN  << IF BCmp(a, b) >= 0 THEN BSub(a, b) ELSE BSub(b, a), b >>

\* f is the real number but for the rounding of a few float operations: a
\* relative error of at most eight units of rounding, 2^-50
Near(f, t, num, den) ==
    LET err == ErrorOf(f, t, num, den)
    IN  BCmp(BShl(err[1], MantissaBits - 3), err[2]) <= 0

\* the fields of the string of the call in hand, as float() reads them
Parsed == [k \in 1 .. 4 |-> ParseFloat(fn.crop_str[k])]

\* the corners x, y, x + w, y + h of the rectangle as given, as real numbers
GivenCorners ==
    << Real(Parsed[1].m, Parsed[1].e), Real(Parsed[2].m, Parsed[2].e),
       ExactSum(Parsed[1], Parsed[3]), ExactSum(Parsed[2], Parsed[4]) >>

\* the call in hand converts a rectangle: the string unpacks, and the
\* resolution is positive where it is used
Converts ==
    /\ fn.op \in { "converted", "rendered" }
    /\ Unpacks(fn.crop_str)
    /\ fn.units = "pt" \/ fn.dpi > 0

\* what convert_crop_units returns: no region for the empty string; for
\* x, y, w, h the corners x', y', x' + w', y' + h', the primed values being
\* the given ones for pt and the given ones divided by dpi / 72 for px, up
\* to the rounding of the float operations
ConvertContract ==
    /\ (fn.op \in { "converted", "rendered" } /\ fn.crop_str = << >>) =>
           fn.result.kind = "None"
    /\ Converts =>
           /\ fn.result.kind = "rect"
           /\ \A k \in 1 .. 4 :
                  Near(fn.result.rect[k], GivenCorners[k],
                       IF fn.units = "px" THEN PointsPerInch ELSE 1,
                       IF fn.units = "px" THEN fn.dpi ELSE 1)
           /\ fn.units = "pt" =>
                  /\ fn.result.rect[1] = Parsed[1]
                  /\ fn.result.rect[2] = Parsed[2]

\* a rectangle in pixels has been converted and taken back to pixels at
\* the same resolution
RoundTrip == Converts /\ fn.op = "rendered" /\ fn.units = "px"

=============================================================================
